---- MODULE Spec2Model ----
(***************************************************************************)
(* Model of the BM-Lite fingerprint sensor session (src/src/fingerprint.rs) *)
(* Each thread calls the public operations init, is_user_enrolled,         *)
(* wipe_templates, enroll_user and check_once.  Every platform / firmware   *)
(* call is a blocking call: the thread's pc names the call it is inside,    *)
(* and the call's status is chosen when the call returns.                   *)
(***************************************************************************)
EXTENDS Integers, Sequences, FiniteSets, TLC

\* ------------------------------------------------------------------ bounds
\* Threads that call the public operations.
NumThreads == 2
\* platform_init returns a non-OK status at most this many times.
MaxInitFailures == 2

Threads == 1..NumThreads
NoThread == 0

\* Values of the timeout_ms argument (u32) the callers pass to check_once.
TimeoutValues == {0, 5000, 65535, 65536, 100000}
\* Template ids the firmware may report through the template_id out-pointer.
TemplateIds == {0, 7}

\* ------------------------------------------------------- status codes (i32)
FPC_BEP_RESULT_OK == "OK"
FPC_BEP_RESULT_TIMEOUT == "TIMEOUT"
FPC_BEP_RESULT_IO_ERROR == "IO_ERROR"
StatusCodes == {FPC_BEP_RESULT_OK, FPC_BEP_RESULT_TIMEOUT, FPC_BEP_RESULT_IO_ERROR}
Pending == "pending"

\* ------------------------------------------------------------ result values
NoResult == [kind |-> "none", val |-> "", what |-> "", code |-> ""]
Ok(v) == [kind |-> "Ok", val |-> v, what |-> "", code |-> ""]
Err(what, code) == [kind |-> "Err", val |-> "", what |-> what, code |-> code]
NotInitialized == Err("BM-Lite not initialized", "")
\* The thread unwinds with a panic instead of returning.
Panicked(what) == [kind |-> "Panic", val |-> "", what |-> what, code |-> ""]

\* check_bep: Ok(()) when the status is the OK sentinel, else an error that
\* carries the step name and the raw code.
check_bep_ok(res) == res = FPC_BEP_RESULT_OK
check_bep_err(res, what) == Err(what, res)

\* ------------------------------------------------------------------- heap
\* alloc_config makes five heap blocks per call; a pointer is <<n, kind>>.
NullPtr == <<0, "null">>
BlockKinds == {"pkt_buffer", "txrx_buffer", "chain", "pins", "params"}
alloc_config(n) == {<<n, k>> : k \in BlockKinds}

\* ---------------------------------------------------------------- SensorCtx
SensorCtx_new ==
    [params |-> NullPtr, pins |-> NullPtr, chain |-> NullPtr, initialized |-> FALSE]
\* Mutant of SensorCtx_set: the flag is not raised with the pointers.
SensorCtx_set_without_flag(params, pins, chain) ==
    [params |-> params, pins |-> pins, chain |-> chain, initialized |-> FALSE]
SensorCtx_set(params, pins, chain) ==
    [params |-> params, pins |-> pins, chain |-> chain, initialized |-> TRUE]
SensorCtx_reset ==
    [params |-> NullPtr, pins |-> NullPtr, chain |-> NullPtr, initialized |-> FALSE]
is_set(c) == c.initialized /\ c.chain # NullPtr

VARIABLES
    ctx,        \* SENSOR_CTX's SensorCtx
    lock,       \* holder of the SENSOR_CTX mutex, NoThread when free
    heap,       \* heap blocks allocated and not freed
    initOk,     \* how many platform_init calls have returned OK
    templates,  \* template ids stored in the sensor module (firmware state):
                \* changed by a save or remove-all that returns OK
    pc,         \* per thread: "idle", "lock", "locked", the call it is inside,
                \* "return", or "panicked"
    op,         \* per thread: the public operation being (or last) executed
    timeout_ms, \* per thread: check_once's argument
    local,      \* per thread: init's (params, pins, chain) allocation number
    matched,    \* per thread: check_once's local `matched`
    tid,        \* per thread: check_once's local `tid`
    trace,      \* per thread: platform/firmware calls of the operation so far
    result,     \* per thread: the operation's return value
    poisoned,   \* SENSOR_CTX's poison flag: a thread panicked holding the guard
    lastStore,  \* the last change of the template store that returned OK:
                \* "none", "remove_all" or "save"
    main        \* fn main: where it is and the operations it has completed

vars == <<ctx, lock, heap, initOk, templates, pc, op, timeout_ms, local, matched, tid,
          trace, result, poisoned, lastStore, main>>

Ops == {"init", "is_user_enrolled", "wipe_templates", "enroll_user", "check_once"}

\* fn main is not running: the operations are called by the threads.
MainOff == [pc |-> "off", boot |-> <<>>, arm |-> "none"]

\* fn main has started and is about to call fingerprint::init().
MainStart == [pc |-> "init", boot |-> <<>>, arm |-> "none"]

\* The state of the process before any operation is called.
SessionInit ==
    /\ poisoned = FALSE
    /\ lastStore = "none"
    /\ ctx = SensorCtx_new
    /\ lock = NoThread
    /\ heap = {}
    /\ initOk = 0
    /\ pc = [t \in Threads |-> "idle"]
    /\ op = [t \in Threads |-> "none"]
    /\ timeout_ms = [t \in Threads |-> 0]
    /\ local = [t \in Threads |-> 0]
    /\ matched = [t \in Threads |-> FALSE]
    /\ tid = [t \in Threads |-> 0]
    /\ trace = [t \in Threads |-> <<>>]
    /\ result = [t \in Threads |-> NoResult]

Init ==
    /\ SessionInit
    /\ templates \in {{}, {1}}
    /\ main = MainOff


\* ----------------------------------------------------- program constants
U16_MAX == 65535
ENROLL_TEMPLATE_ID == 1
FINGER_ABSENT_TIMEOUT == 5000

Min(a, b) == IF a < b THEN a ELSE b
\* `x as u16`
AsU16(x) == x % 65536
\* `timeout_ms.min(65_535) as u16`
ClampTimeout(ms) == AsU16(Min(ms, U16_MAX))
\* the timeout argument check_once hands to bep_identify_finger (a u32)
IdentifyTimeout(ms) == ms

Unit == "()"
BoolStr(b) == IF b THEN "true" ELSE "false"

\* ------------------------------------------------------------- bookkeeping
AllocCount == Cardinality({b[1] : b \in heap})
\* allocations of init calls whose platform_init failed
FailedInits ==
    Cardinality({b[1] : b \in heap}
                \ ({ctx.chain[1]} \cup {local[t] : t \in {u \in Threads : pc[u] = "platform_init"}}))

\* Mutant of LockFree: lock() never waits for the guard of another thread.
LockFree_unguarded == TRUE

\* SENSOR_CTX.lock() succeeds only when no guard is alive.
LockFree == lock = NoThread

\* What a call wrote through its out-pointers: the template count, the
\* matched template id and the matched flag.
NoOut == [count |-> 0, tid |-> 0, matched |-> FALSE]

\* The call the thread is inside returns status st, having written out.
ReturnedOut(tr, st, out) == [tr EXCEPT ![Len(tr)].st = st, ![Len(tr)].out = out]
Returned(tr, st) == ReturnedOut(tr, st, NoOut)

\* bep_template_get_count writes the number of stored templates when it succeeds.
CountOut(st) ==
    [NoOut EXCEPT !.count = IF st = FPC_BEP_RESULT_OK THEN Cardinality(templates) ELSE 0]

\* After the calls tr, the thread enters the call fn(ptr, arg) and blocks in it.
Issue(t, tr, fn, ptr, arg) ==
    /\ pc' = [pc EXCEPT ![t] = fn]
    /\ trace' = [trace EXCEPT ![t] =
                    Append(tr, [fn |-> fn, ptr |-> ptr, arg |-> arg, st |-> Pending,
                                out |-> NoOut])]
    /\ UNCHANGED <<lock, result>>

\* The operation evaluates its return value r after the calls tr; the guard
\* is still alive.
Return(t, tr, r) ==
    /\ pc' = [pc EXCEPT ![t] = "return"]
    /\ trace' = [trace EXCEPT ![t] = tr]
    /\ result' = [result EXCEPT ![t] = r]
    /\ lock' = lock

\* ----------------------------------------------------------------- callers
Call(t, o, ms) ==
    /\ pc[t] = "idle"
    /\ op' = [op EXCEPT ![t] = o]
    /\ timeout_ms' = [timeout_ms EXCEPT ![t] = ms]
    /\ pc' = [pc EXCEPT ![t] = "lock"]
    /\ UNCHANGED <<poisoned, main, lastStore, ctx, lock, heap, initOk, templates, local, matched, tid, trace, result>>

\* Mutant of Exit: an error return leaves without dropping the guard.
Exit_keeps_guard_on_error(t) ==
    /\ pc[t] = "return"
    /\ lock' = IF result[t].kind = "Err" THEN lock ELSE NoThread
    /\ pc' = [pc EXCEPT ![t] = "idle"]
    /\ op' = [op EXCEPT ![t] = "none"]
    /\ timeout_ms' = [timeout_ms EXCEPT ![t] = 0]
    /\ trace' = [trace EXCEPT ![t] = <<>>]
    /\ result' = [result EXCEPT ![t] = NoResult]
    /\ local' = [local EXCEPT ![t] = 0]
    /\ matched' = [matched EXCEPT ![t] = FALSE]
    /\ tid' = [tid EXCEPT ![t] = 0]
    /\ UNCHANGED <<poisoned, main, lastStore, ctx, heap, initOk, templates>>

\* The function's frame ends: the guard `ctx` is dropped, the locals die and
\* the value goes to the caller.
ExitFrame(t) ==
    /\ pc[t] = "return"
    /\ lock' = NoThread
    /\ pc' = [pc EXCEPT ![t] = "idle"]
    /\ op' = [op EXCEPT ![t] = "none"]
    /\ timeout_ms' = [timeout_ms EXCEPT ![t] = 0]
    /\ trace' = [trace EXCEPT ![t] = <<>>]
    /\ result' = [result EXCEPT ![t] = NoResult]
    /\ local' = [local EXCEPT ![t] = 0]
    /\ matched' = [matched EXCEPT ![t] = FALSE]
    /\ tid' = [tid EXCEPT ![t] = 0]
    /\ UNCHANGED <<poisoned, lastStore, ctx, heap, initOk, templates>>

\* An operation called by a thread returns to it.
Exit(t) ==
    /\ ExitFrame(t)
    /\ UNCHANGED main

\* The thread unwinds: its locals die, a guard it holds is dropped.
Unwind(t, what) ==
    /\ pc' = [pc EXCEPT ![t] = "panicked"]
    /\ result' = [result EXCEPT ![t] = Panicked(what)]
    /\ op' = [op EXCEPT ![t] = "none"]
    /\ timeout_ms' = [timeout_ms EXCEPT ![t] = 0]
    /\ trace' = [trace EXCEPT ![t] = <<>>]
    /\ local' = [local EXCEPT ![t] = 0]
    /\ matched' = [matched EXCEPT ![t] = FALSE]
    /\ tid' = [tid EXCEPT ![t] = 0]

\* The places where an operation logs through log::info! with the guard
\* alive: enroll_user after its guard check, init after ctx.set, check_once
\* after a match.
LogSite(t) ==
    \/ pc[t] = "locked" /\ op[t] = "enroll_user" /\ is_set(ctx)
    \/ pc[t] = "return" /\ op[t] = "init" /\ trace[t] # <<>> /\ result[t] = Ok(Unit)
    \/ pc[t] = "return" /\ op[t] = "check_once" /\ result[t] = Ok("true")

\* The logger panics inside log::info!: the guard is dropped while the thread
\* unwinds, which poisons SENSOR_CTX.
log_panic(t) ==
    /\ LogSite(t)
    /\ Unwind(t, "log")
    /\ lock' = NoThread
    /\ poisoned' = TRUE
    /\ UNCHANGED <<main, lastStore, ctx, heap, initOk, templates>>

\* Mutant of Acquire_poisoned: the poison is ignored
\* (lock().unwrap_or_else(|e| e.into_inner())) and the operation goes on.
Acquire_poisoned_recovers(t) ==
    /\ pc[t] = "lock"
    /\ LockFree
    /\ poisoned
    /\ lock' = t
    /\ pc' = [pc EXCEPT ![t] = "locked"]
    /\ UNCHANGED <<poisoned, main, lastStore, ctx, heap, initOk, templates, op, timeout_ms, local, matched, tid, trace, result>>

\* SENSOR_CTX.lock() on the poisoned mutex returns Err(PoisonError) and
\* .unwrap() panics; the guard inside the error is dropped at once.
Acquire_poisoned(t) ==
    /\ pc[t] = "lock"
    /\ LockFree
    /\ poisoned
    /\ Unwind(t, "PoisonError")
    /\ UNCHANGED <<poisoned, main, lastStore, ctx, lock, heap, initOk, templates>>

\* let ctx = SENSOR_CTX.lock().unwrap();
Acquire(t) ==
    /\ pc[t] = "lock"
    /\ LockFree
    /\ ~poisoned
    /\ lock' = t
    /\ pc' = [pc EXCEPT ![t] = "locked"]
    /\ UNCHANGED <<poisoned, main, lastStore, ctx, heap, initOk, templates, op, timeout_ms, local, matched, tid, trace, result>>

\* -------------------------------------------------------------------- init
init_enter(t) ==
    /\ pc[t] = "locked" /\ op[t] = "init"
    /\ IF is_set(ctx)
         THEN /\ Return(t, trace[t], Ok(Unit))
              /\ UNCHANGED <<heap, local>>
         ELSE LET n == AllocCount + 1 IN
              /\ heap' = heap \cup alloc_config(n)
              /\ local' = [local EXCEPT ![t] = n]
              /\ Issue(t, trace[t], "platform_init", <<n, "params">>, 0)
    /\ UNCHANGED <<poisoned, main, lastStore, ctx, initOk, templates, op, timeout_ms, matched, tid>>

\* Mutant of init_platform_init: the session is set before the status of
\* platform_init is checked.
init_platform_init_sets_first(t, st) ==
    /\ pc[t] = "platform_init"
    /\ st # FPC_BEP_RESULT_OK => FailedInits < MaxInitFailures
    /\ initOk' = IF st = FPC_BEP_RESULT_OK THEN initOk + 1 ELSE initOk
    /\ ctx' = SensorCtx_set(<<local[t], "params">>, <<local[t], "pins">>,
                            <<local[t], "chain">>)
    /\ IF check_bep_ok(st)
         THEN Return(t, Returned(trace[t], st), Ok(Unit))
         ELSE Return(t, Returned(trace[t], st), check_bep_err(st, "platform_init"))
    /\ UNCHANGED <<poisoned, main, lastStore, heap, templates, op, timeout_ms, local, matched, tid>>

init_platform_init(t, st) ==
    /\ pc[t] = "platform_init"
    /\ st # FPC_BEP_RESULT_OK => FailedInits < MaxInitFailures
    /\ initOk' = IF st = FPC_BEP_RESULT_OK THEN initOk + 1 ELSE initOk
    /\ IF check_bep_ok(st)
         THEN /\ ctx' = SensorCtx_set(<<local[t], "params">>, <<local[t], "pins">>,
                                      <<local[t], "chain">>)
              /\ Return(t, Returned(trace[t], st), Ok(Unit))
         ELSE /\ ctx' = ctx
              /\ Return(t, Returned(trace[t], st), check_bep_err(st, "platform_init"))
    /\ UNCHANGED <<poisoned, main, lastStore, heap, templates, op, timeout_ms, local, matched, tid>>

\* -------------------------------------------------------- is_user_enrolled
is_user_enrolled_enter(t) ==
    /\ pc[t] = "locked" /\ op[t] = "is_user_enrolled"
    /\ IF ~is_set(ctx)
         THEN Return(t, trace[t], NotInitialized)
         ELSE Issue(t, trace[t], "bep_template_get_count", ctx.chain, 0)
    /\ UNCHANGED <<poisoned, main, lastStore, ctx, heap, initOk, templates, op, timeout_ms, local, matched, tid>>

\* Mutant of is_user_enrolled_get_count: the status of the query is not
\* checked and the local count is used as it is.
is_user_enrolled_get_count_unchecked(t, st) ==
    /\ pc[t] = "bep_template_get_count" /\ op[t] = "is_user_enrolled"
    /\ Return(t, ReturnedOut(trace[t], st, CountOut(st)), Ok(BoolStr(CountOut(st).count > 0)))
    /\ UNCHANGED <<poisoned, main, lastStore, ctx, heap, initOk, templates, op, timeout_ms, local, matched, tid>>

is_user_enrolled_get_count(t, st) ==
    /\ pc[t] = "bep_template_get_count" /\ op[t] = "is_user_enrolled"
    /\ LET count == CountOut(st).count
           tr == ReturnedOut(trace[t], st, CountOut(st)) IN
       IF check_bep_ok(st)
         THEN Return(t, tr, Ok(BoolStr(count > 0)))
         ELSE Return(t, tr, check_bep_err(st, "bep_template_get_count"))
    /\ UNCHANGED <<poisoned, main, lastStore, ctx, heap, initOk, templates, op, timeout_ms, local, matched, tid>>

\* Mutant of wipe_templates_enter: the guard fails like that of the other
\* operations instead of returning Ok(()).
wipe_templates_enter_strict(t) ==
    /\ pc[t] = "locked" /\ op[t] = "wipe_templates"
    /\ IF ~is_set(ctx)
         THEN Return(t, trace[t], NotInitialized)
         ELSE Issue(t, trace[t], "bep_template_remove_all", ctx.chain, 0)
    /\ UNCHANGED <<poisoned, main, lastStore, ctx, heap, initOk, templates, op, timeout_ms, local, matched, tid>>

\* ---------------------------------------------------------- wipe_templates
wipe_templates_enter(t) ==
    /\ pc[t] = "locked" /\ op[t] = "wipe_templates"
    /\ IF ~is_set(ctx)
         THEN Return(t, trace[t], Ok(Unit))
         ELSE Issue(t, trace[t], "bep_template_remove_all", ctx.chain, 0)
    /\ UNCHANGED <<poisoned, main, lastStore, ctx, heap, initOk, templates, op, timeout_ms, local, matched, tid>>

\* Mutant of wipe_templates_remove_all: a failed remove-all resets the session.
wipe_templates_remove_all_resets(t, st) ==
    /\ pc[t] = "bep_template_remove_all"
    /\ templates' = IF st = FPC_BEP_RESULT_OK THEN {} ELSE templates
    /\ lastStore' = IF st = FPC_BEP_RESULT_OK THEN "remove_all" ELSE lastStore
    /\ ctx' = IF check_bep_ok(st) THEN ctx ELSE SensorCtx_reset
    /\ IF check_bep_ok(st)
         THEN Return(t, Returned(trace[t], st), Ok(Unit))
         ELSE Return(t, Returned(trace[t], st), check_bep_err(st, "bep_template_remove_all"))
    /\ UNCHANGED <<poisoned, main, heap, initOk, op, timeout_ms, local, matched, tid>>

wipe_templates_remove_all(t, st) ==
    /\ pc[t] = "bep_template_remove_all"
    /\ templates' = IF st = FPC_BEP_RESULT_OK THEN {} ELSE templates
    /\ lastStore' = IF st = FPC_BEP_RESULT_OK THEN "remove_all" ELSE lastStore
    /\ IF check_bep_ok(st)
         THEN Return(t, Returned(trace[t], st), Ok(Unit))
         ELSE Return(t, Returned(trace[t], st), check_bep_err(st, "bep_template_remove_all"))
    /\ UNCHANGED <<poisoned, main, ctx, heap, initOk, op, timeout_ms, local, matched, tid>>

\* ------------------------------------------------------------- enroll_user
enroll_user_enter(t) ==
    /\ pc[t] = "locked" /\ op[t] = "enroll_user"
    /\ IF ~is_set(ctx)
         THEN Return(t, trace[t], NotInitialized)
         ELSE Issue(t, trace[t], "bep_enroll_finger", ctx.chain, 0)
    /\ UNCHANGED <<poisoned, main, lastStore, ctx, heap, initOk, templates, op, timeout_ms, local, matched, tid>>

\* Mutant of enroll_user_enroll_finger: the capture's status is not checked.
enroll_user_enroll_finger_unchecked(t, st) ==
    /\ pc[t] = "bep_enroll_finger"
    /\ Issue(t, Returned(trace[t], st), "bep_template_save", ctx.chain, ENROLL_TEMPLATE_ID)
    /\ UNCHANGED <<poisoned, main, lastStore, ctx, heap, initOk, templates, op, timeout_ms, local, matched, tid>>

\* 1) bep_enroll_finger returned; on OK go on to 2) bep_template_save(chain, 1)
enroll_user_enroll_finger(t, st) ==
    /\ pc[t] = "bep_enroll_finger"
    /\ IF check_bep_ok(st)
         THEN Issue(t, Returned(trace[t], st), "bep_template_save", ctx.chain,
                    ENROLL_TEMPLATE_ID)
         ELSE Return(t, Returned(trace[t], st), check_bep_err(st, "bep_enroll_finger"))
    /\ UNCHANGED <<poisoned, main, lastStore, ctx, heap, initOk, templates, op, timeout_ms, local, matched, tid>>

\* 2) bep_template_save returned; on OK go on to 3) bep_template_get_count
enroll_user_template_save(t, st) ==
    /\ pc[t] = "bep_template_save"
    /\ templates' = IF st = FPC_BEP_RESULT_OK
                      THEN templates \cup {trace[t][Len(trace[t])].arg}
                      ELSE templates
    /\ lastStore' = IF st = FPC_BEP_RESULT_OK THEN "save" ELSE lastStore
    /\ IF check_bep_ok(st)
         THEN Issue(t, Returned(trace[t], st), "bep_template_get_count", ctx.chain, 0)
         ELSE Return(t, Returned(trace[t], st), check_bep_err(st, "bep_template_save"))
    /\ UNCHANGED <<poisoned, main, ctx, heap, initOk, op, timeout_ms, local, matched, tid>>

\* 3) the count re-query returned; on OK go on to 4) wait for the finger to lift
enroll_user_get_count(t, st) ==
    /\ pc[t] = "bep_template_get_count" /\ op[t] = "enroll_user"
    /\ IF check_bep_ok(st)
         THEN Issue(t, ReturnedOut(trace[t], st, CountOut(st)),
                    "sensor_wait_finger_not_present", ctx.chain, FINGER_ABSENT_TIMEOUT)
         ELSE Return(t, ReturnedOut(trace[t], st, CountOut(st)),
                     check_bep_err(st, "bep_template_get_count apres save"))
    /\ UNCHANGED <<poisoned, main, lastStore, ctx, heap, initOk, templates, op, timeout_ms, local, matched, tid>>

\* 4) the removal wait returned; on OK 5) sleep 150 ms and return Ok(())
enroll_user_wait_not_present(t, st) ==
    /\ pc[t] = "sensor_wait_finger_not_present" /\ op[t] = "enroll_user"
    /\ IF check_bep_ok(st)
         THEN Return(t, Returned(trace[t], st), Ok(Unit))
         ELSE Return(t, Returned(trace[t], st),
                     check_bep_err(st, "sensor_wait_finger_not_present"))
    /\ UNCHANGED <<poisoned, main, lastStore, ctx, heap, initOk, templates, op, timeout_ms, local, matched, tid>>

\* Mutant of check_once_enter: the is_set guard is missing.
check_once_enter_unguarded(t) ==
    /\ pc[t] = "locked" /\ op[t] = "check_once"
    /\ Issue(t, trace[t], "sensor_wait_finger_present", ctx.chain,
             AsU16(Min(timeout_ms[t], U16_MAX)))
    /\ UNCHANGED <<poisoned, main, lastStore, ctx, heap, initOk, templates, op, timeout_ms, local, matched, tid>>

\* -------------------------------------------------------------- check_once
check_once_enter(t) ==
    /\ pc[t] = "locked" /\ op[t] = "check_once"
    /\ IF ~is_set(ctx)
         THEN Return(t, trace[t], NotInitialized)
         ELSE Issue(t, trace[t], "sensor_wait_finger_present", ctx.chain,
                    ClampTimeout(timeout_ms[t]))
    /\ UNCHANGED <<poisoned, main, lastStore, ctx, heap, initOk, templates, op, timeout_ms, local, matched, tid>>

\* 1) the presence wait returned; on OK go on to 2) bep_identify_finger
check_once_wait_present(t, st) ==
    /\ pc[t] = "sensor_wait_finger_present"
    /\ IF check_bep_ok(st)
         THEN Issue(t, Returned(trace[t], st), "bep_identify_finger", ctx.chain,
                    IdentifyTimeout(timeout_ms[t]))
         ELSE Return(t, Returned(trace[t], st),
                     check_bep_err(st, "sensor_wait_finger_present"))
    /\ UNCHANGED <<poisoned, main, lastStore, ctx, heap, initOk, templates, op, timeout_ms, local, matched, tid>>

\* Mutant of check_once_identify: the result is returned right after the
\* identify call, without the removal wait.
check_once_identify_no_wait(t, st, id, m) ==
    /\ pc[t] = "bep_identify_finger"
    /\ tid' = [tid EXCEPT ![t] = id]
    /\ matched' = [matched EXCEPT ![t] = m]
    /\ LET tr == ReturnedOut(trace[t], st, [NoOut EXCEPT !.tid = id, !.matched = m]) IN
       IF check_bep_ok(st)
         THEN Return(t, tr, Ok(BoolStr(m)))
         ELSE Return(t, tr, check_bep_err(st, "bep_identify_finger"))
    /\ UNCHANGED <<poisoned, main, lastStore, ctx, heap, initOk, templates, op, timeout_ms, local>>

\* 2) bep_identify_finger returned, having written id and m through the
\* out-pointers; on OK go on to 3) the removal wait
check_once_identify(t, st, id, m) ==
    /\ pc[t] = "bep_identify_finger"
    /\ tid' = [tid EXCEPT ![t] = id]
    /\ matched' = [matched EXCEPT ![t] = m]
    /\ LET tr == ReturnedOut(trace[t], st, [NoOut EXCEPT !.tid = id, !.matched = m]) IN
       IF check_bep_ok(st)
         THEN Issue(t, tr, "sensor_wait_finger_not_present", ctx.chain,
                    FINGER_ABSENT_TIMEOUT)
         ELSE Return(t, tr, check_bep_err(st, "bep_identify_finger"))
    /\ UNCHANGED <<poisoned, main, lastStore, ctx, heap, initOk, templates, op, timeout_ms, local>>

\* Mutant of check_once_wait_not_present: the removal wait's status goes
\* through check_bep like the others.
check_once_wait_not_present_checked(t, st) ==
    /\ pc[t] = "sensor_wait_finger_not_present" /\ op[t] = "check_once"
    /\ IF check_bep_ok(st)
         THEN Return(t, Returned(trace[t], st), Ok(BoolStr(matched[t])))
         ELSE Return(t, Returned(trace[t], st),
                     check_bep_err(st, "sensor_wait_finger_not_present"))
    /\ UNCHANGED <<poisoned, main, lastStore, ctx, heap, initOk, templates, op, timeout_ms, local, matched, tid>>

\* 3) the removal wait returned: its status is dropped (let _ = ...)
check_once_wait_not_present(t, st) ==
    /\ pc[t] = "sensor_wait_finger_not_present" /\ op[t] = "check_once"
    /\ Return(t, Returned(trace[t], st), Ok(BoolStr(matched[t])))
    /\ UNCHANGED <<poisoned, main, lastStore, ctx, heap, initOk, templates, op, timeout_ms, local, matched, tid>>

\* ------------------------------------------------------------ specification
Next ==
    \E t \in Threads :
        \/ \E o \in Ops \ {"check_once"} : Call(t, o, 0)
        \/ \E ms \in TimeoutValues : Call(t, "check_once", ms)
        \/ Acquire(t)
        \/ Acquire_poisoned(t)
        \/ log_panic(t)
        \/ Exit(t)
        \/ init_enter(t)
        \/ \E st \in StatusCodes : init_platform_init(t, st)
        \/ is_user_enrolled_enter(t)
        \/ \E st \in StatusCodes : is_user_enrolled_get_count(t, st)
        \/ wipe_templates_enter(t)
        \/ \E st \in StatusCodes : wipe_templates_remove_all(t, st)
        \/ enroll_user_enter(t)
        \/ \E st \in StatusCodes : enroll_user_enroll_finger(t, st)
        \/ \E st \in StatusCodes : enroll_user_template_save(t, st)
        \/ \E st \in StatusCodes : enroll_user_get_count(t, st)
        \/ \E st \in StatusCodes : enroll_user_wait_not_present(t, st)
        \/ check_once_enter(t)
        \/ \E st \in StatusCodes : check_once_wait_present(t, st)
        \/ \E st \in StatusCodes, id \in TemplateIds, m \in BOOLEAN :
               check_once_identify(t, st, id, m)
        \/ \E st \in StatusCodes : check_once_wait_not_present(t, st)

Spec == Init /\ [][Next]_vars

\* --------------------------------------------------------------- fn main
\* The thread that runs fn main, and the timeout it passes to check_once.
MainThread == 1
MAIN_CHECK_TIMEOUT == 5000

\* fingerprint::init()?; fingerprint::wipe_templates()?; fingerprint::enroll_user()?;
BootOrder == <<"init", "wipe_templates", "enroll_user">>
AfterBoot(o) ==
    CASE o = "init" -> "wipe_templates"
      [] o = "wipe_templates" -> "enroll_user"
      [] o = "enroll_user" -> "loop"

\* match fingerprint::check_once(5_000) { Ok(true) .. Ok(false) .. Err(e) .. }
MatchArm(r) ==
    CASE r.kind = "Ok" /\ r.val = BoolStr(TRUE) -> "info_recognised"
      [] r.kind = "Ok" /\ r.val = BoolStr(FALSE) -> "warn_not_recognised"
      [] OTHER -> "error"

\* main calls the operation it has come to; in the loop, check_once(5_000).
main_call ==
    /\ main.pc \in {"init", "wipe_templates", "enroll_user", "loop"}
    /\ IF main.pc = "loop"
         THEN Call(MainThread, "check_once", MAIN_CHECK_TIMEOUT)
         ELSE Call(MainThread, main.pc, 0)

\* Mutant of main_return: the `?` after enroll_user is missing.
main_return_ignores_enroll_error ==
    /\ ExitFrame(MainThread)
    /\ LET o == op[MainThread]
           k == result[MainThread].kind IN
       IF o = "check_once"
         THEN main' = [main EXCEPT !.pc = "match", !.arm = MatchArm(result[MainThread])]
         ELSE main' = [main EXCEPT
                         !.pc = IF k = "Ok" \/ o = "enroll_user" THEN AfterBoot(o) ELSE "exited",
                         !.boot = Append(main.boot, [op |-> o, res |-> result[MainThread]])]

\* The operation returns to main: `?` leaves main on an error of init,
\* wipe_templates or enroll_user with that error; the result of check_once
\* selects an arm of the match.
main_return ==
    /\ ExitFrame(MainThread)
    /\ LET o == op[MainThread]
           k == result[MainThread].kind IN
       IF o = "check_once"
         THEN main' = [main EXCEPT !.pc = "match", !.arm = MatchArm(result[MainThread])]
         ELSE main' = [main EXCEPT
                         !.pc = IF k = "Ok" THEN AfterBoot(o) ELSE "exited",
                         !.boot = Append(main.boot, [op |-> o, res |-> result[MainThread]])]

\* The arm has logged; main sleeps 500 ms and goes round the loop.
main_sleep ==
    /\ main.pc = "match"
    /\ main' = [main EXCEPT !.pc = "loop", !.arm = "none"]
    /\ UNCHANGED <<ctx, lock, heap, initOk, templates, pc, op, timeout_ms, local,
                   matched, tid, trace, result, poisoned, lastStore>>

MainNext ==
    \/ main_call
    \/ main_return
    \/ main_sleep
    \/ Acquire(MainThread)
    \/ init_enter(MainThread)
    \/ \E st \in StatusCodes : init_platform_init(MainThread, st)
    \/ wipe_templates_enter(MainThread)
    \/ \E st \in StatusCodes : wipe_templates_remove_all(MainThread, st)
    \/ enroll_user_enter(MainThread)
    \/ \E st \in StatusCodes : enroll_user_enroll_finger(MainThread, st)
    \/ \E st \in StatusCodes : enroll_user_template_save(MainThread, st)
    \/ \E st \in StatusCodes : enroll_user_get_count(MainThread, st)
    \/ \E st \in StatusCodes : enroll_user_wait_not_present(MainThread, st)
    \/ check_once_enter(MainThread)
    \/ \E st \in StatusCodes : check_once_wait_present(MainThread, st)
    \/ \E st \in StatusCodes, id \in TemplateIds, m \in BOOLEAN :
           check_once_identify(MainThread, st, id, m)
    \/ \E st \in StatusCodes : check_once_wait_not_present(MainThread, st)

\* At power-on the sensor's flash holds whatever earlier runs stored.
StoredAtBoot == SUBSET (TemplateIds \cup {ENROLL_TEMPLATE_ID})

MainInit ==
    /\ SessionInit
    /\ templates \in StoredAtBoot
    /\ main = MainStart
MainSpec == MainInit /\ [][MainNext]_vars

\* ================================================================ properties
\* The platform entry point and the firmware entry points.
FirmwareCalls ==
    {"bep_enroll_finger", "bep_identify_finger", "bep_template_get_count",
     "bep_template_remove_all", "bep_template_save", "sensor_wait_finger_not_present",
     "sensor_wait_finger_present"}
HardwareCalls == FirmwareCalls \cup {"platform_init"}

\* The thread is between lock() and the drop of its guard.
InOperation(t) == pc[t] \notin {"idle", "lock", "panicked"}
\* The thread is inside a platform or firmware call.
InCall(t) == pc[t] \in HardwareCalls
\* The operation has evaluated its return value.
Returning(t, o) == pc[t] = "return" /\ op[t] = o
Fns(tr) == [i \in DOMAIN tr |-> tr[i].fn]
Args(tr) == [i \in DOMAIN tr |-> tr[i].arg]
ChainBlocks == {b \in heap : b[2] = "chain"}

\* C1: mutual exclusion. A thread that has read the session state or issued a
\* platform/firmware call and has not yet dropped its guard holds the
\* SENSOR_CTX lock, and no two threads are in that region at once: no call of
\* one operation starts while another operation's call sequence is under way.
C1_MutualExclusion ==
    /\ \A t \in Threads : InOperation(t) => lock = t
    /\ \A t, u \in Threads : t # u => ~(InOperation(t) /\ InOperation(u))
    /\ \A t \in Threads : ~InOperation(t) => trace[t] = <<>>

\* C1 witness: a thread is inside a firmware call while another thread, having
\* called an operation, waits for the lock.
C1_Witness ==
    \E t, u \in Threads :
        /\ t # u
        /\ pc[t] = "bep_identify_finger"
        /\ pc[u] = "lock" /\ op[u] = "enroll_user"

\* C2: init is idempotent and the session has exactly one Protocol Channel:
\* init on an initialized session returns Ok without a platform_init call,
\* platform_init succeeds at most once, and once the session is initialized
\* exactly one channel is allocated (no double-init, no leak).
C2_InitIdempotentOneChannel ==
    /\ initOk <= 1
    /\ \A t \in Threads :
          Returning(t, "init") /\ trace[t] = <<>> => result[t] = Ok(Unit) /\ local[t] = 0
    /\ is_set(ctx) => Cardinality(ChainBlocks) = 1

\* C3: when platform_init fails, init frees what alloc_config allocated before
\* it returns the error: no allocated buffer is outstanding.
C3_FailedInitFreesBuffers ==
    \A t \in Threads :
        Returning(t, "init") /\ result[t].kind = "Err" => heap = {}

\* C4: on a session that is not initialized, is_user_enrolled, enroll_user and
\* check_once return the not-initialized error without any firmware call, and
\* no firmware call is ever issued before a platform_init has returned OK.
C4_GuardBeforeInit ==
    /\ \A t \in Threads :
          /\ ~ctx.initialized
          /\ pc[t] = "return"
          /\ op[t] \in {"is_user_enrolled", "enroll_user", "check_once"}
          => result[t] = NotInitialized /\ trace[t] = <<>>
    /\ \A t \in Threads :
          (\E i \in DOMAIN trace[t] : trace[t][i].fn \in FirmwareCalls)
          => initOk >= 1 /\ ctx.initialized
    /\ \A t \in Threads : pc[t] \in FirmwareCalls => initOk >= 1

\* C4 witness: check_once is about to return the not-initialized error on an
\* uninitialized session.
C4_Witness ==
    \E t \in Threads :
        /\ Returning(t, "check_once")
        /\ ~ctx.initialized
        /\ result[t] = NotInitialized
        /\ trace[t] = <<>>

\* C5: every timeout that check_once passes to a firmware call on behalf of
\* the caller is min(timeout_ms, 65535).
C5_TimeoutClamped ==
    \A t \in Threads :
        op[t] = "check_once" =>
            \A i \in DOMAIN trace[t] :
                trace[t][i].fn \in {"sensor_wait_finger_present", "bep_identify_finger"}
                => trace[t][i].arg = Min(timeout_ms[t], U16_MAX)

\* C6: match mapping. When bep_identify_finger returned OK, check_once returns
\* Ok(matched flag), whatever the template id and whatever the removal wait
\* returned; when it returned a non-OK status, check_once returns an error
\* whatever the matched flag.
C6_MatchMapping ==
    \A t \in Threads :
        Returning(t, "check_once") /\ Len(trace[t]) >= 2 =>
            LET e == trace[t][2] IN
            /\ e.fn = "bep_identify_finger"
            /\ IF e.st = FPC_BEP_RESULT_OK
                 THEN result[t] = Ok(BoolStr(e.out.matched))
                 ELSE result[t].kind = "Err"

\* C6 witness: identify returned OK with the matched flag and template id 7,
\* the removal wait failed, and check_once returns Ok(true).
C6_Witness ==
    \E t \in Threads :
        /\ Returning(t, "check_once")
        /\ Len(trace[t]) = 3
        /\ trace[t][2].st = FPC_BEP_RESULT_OK
        /\ trace[t][2].out.matched /\ trace[t][2].out.tid = 7
        /\ trace[t][3].st # FPC_BEP_RESULT_OK
        /\ result[t] = Ok("true")

\* C7: a clean timeout is not an error: when the presence wait or the identify
\* call reports a timeout, check_once returns Ok(false).
C7_TimeoutIsOkFalse ==
    \A t \in Threads :
        /\ Returning(t, "check_once")
        /\ \E i \in DOMAIN trace[t] :
              /\ trace[t][i].fn \in {"sensor_wait_finger_present", "bep_identify_finger"}
              /\ trace[t][i].st = FPC_BEP_RESULT_TIMEOUT
        => result[t] = Ok("false")

\* C8: enroll sequencing. The calls of enroll_user are a prefix of guided
\* enroll, save under id 1, count, wait-for-absent with 5000 ms; a call is
\* issued only after every earlier call returned OK; enroll_user returns Ok
\* only after all four returned OK.
EnrollFns ==
    <<"bep_enroll_finger", "bep_template_save", "bep_template_get_count",
      "sensor_wait_finger_not_present">>
EnrollArgs == <<0, ENROLL_TEMPLATE_ID, 0, FINGER_ABSENT_TIMEOUT>>
C8_EnrollSequencing ==
    \A t \in Threads :
        op[t] = "enroll_user" =>
            LET tr == trace[t] IN
            /\ Len(tr) <= 4
            /\ Fns(tr) = SubSeq(EnrollFns, 1, Len(tr))
            /\ Args(tr) = SubSeq(EnrollArgs, 1, Len(tr))
            /\ \A i \in 1..(Len(tr) - 1) : tr[i].st = FPC_BEP_RESULT_OK
            /\ pc[t] = "return" /\ result[t].kind = "Ok"
               => Len(tr) = 4 /\ tr[4].st = FPC_BEP_RESULT_OK

\* C8 witness: an enrollment whose four calls all returned OK is returning Ok.
C8_Witness ==
    \E t \in Threads :
        /\ Returning(t, "enroll_user")
        /\ result[t] = Ok(Unit)
        /\ Len(trace[t]) = 4
        /\ trace[t][2].fn = "bep_template_save" /\ trace[t][2].arg = 1

\* C9: wipe_templates on an uninitialized session returns Ok without any
\* firmware call and no step of it changes the session; on an initialized
\* session it issues exactly one bep_template_remove_all and returns an error
\* iff that call was non-OK.
C9_WipeState ==
    \A t \in Threads :
        op[t] = "wipe_templates" =>
            /\ Len(trace[t]) <= 1
            /\ pc[t] = "return" =>
                  IF ~ctx.initialized
                    THEN result[t] = Ok(Unit) /\ trace[t] = <<>>
                    ELSE /\ Len(trace[t]) = 1
                         /\ trace[t][1].fn = "bep_template_remove_all"
                         /\ trace[t][1].ptr = ctx.chain
                         /\ (result[t].kind = "Err") = (trace[t][1].st # FPC_BEP_RESULT_OK)
                         /\ result[t].kind = "Ok" => result[t] = Ok(Unit)
C9_WipeStep ==
    \A t \in Threads :
        op[t] = "wipe_templates" /\ pc'[t] # pc[t] =>
            /\ ctx' = ctx
            /\ ~ctx.initialized => templates' = templates /\ heap' = heap
C9_Wipe == []C9_WipeState /\ [][C9_WipeStep]_vars

\* C9 witness: wipe_templates is returning Ok on an uninitialized session.
C9_Witness ==
    \E t \in Threads :
        /\ Returning(t, "wipe_templates")
        /\ ~ctx.initialized
        /\ result[t] = Ok(Unit)

\* C11: error propagation. In every operation a call is issued only after
\* every earlier call returned OK, and an operation whose last call returned a
\* non-OK status returns an error.
C11_ErrorPropagation ==
    \A t \in Threads :
        LET tr == trace[t] IN
        /\ \A i \in 1..(Len(tr) - 1) : tr[i].st = FPC_BEP_RESULT_OK
        /\ pc[t] = "return" /\ Len(tr) > 0 /\ tr[Len(tr)].st # FPC_BEP_RESULT_OK
           => result[t].kind = "Err"

\* C12 (as claimed): whenever check_once has issued the identify call, it
\* issues the removal wait with 5000 ms before it returns.
IdentifyFns ==
    <<"sensor_wait_finger_present", "bep_identify_finger",
      "sensor_wait_finger_not_present">>
C12_RemovalWaitAfterEveryIdentify ==
    \A t \in Threads :
        Returning(t, "check_once") /\ Len(trace[t]) >= 2 =>
            /\ Len(trace[t]) = 3
            /\ trace[t][3].fn = "sensor_wait_finger_not_present"
            /\ trace[t][3].arg = FINGER_ABSENT_TIMEOUT

\* C12 (amended): the calls of check_once are a prefix of presence wait,
\* identify, removal wait; whenever the identify call has returned OK, the
\* removal wait with 5000 ms has been issued and has returned before
\* check_once returns; when identify returns a non-OK status, check_once
\* returns the error without the removal wait.
C12_IdentifyBracketing ==
    \A t \in Threads :
        op[t] = "check_once" =>
            LET tr == trace[t] IN
            /\ Len(tr) <= 3
            /\ Fns(tr) = SubSeq(IdentifyFns, 1, Len(tr))
            /\ pc[t] = "return" /\ Len(tr) >= 2 =>
                  IF tr[2].st = FPC_BEP_RESULT_OK
                    THEN /\ Len(tr) = 3
                         /\ tr[3].arg = FINGER_ABSENT_TIMEOUT
                         /\ tr[3].st \in StatusCodes
                    ELSE Len(tr) = 2 /\ result[t].kind = "Err"

\* C12 witness: check_once is returning after presence wait, an OK identify
\* and the removal wait.
C12_Witness ==
    \E t \in Threads :
        /\ Returning(t, "check_once")
        /\ Len(trace[t]) = 3
        /\ trace[t][2].st = FPC_BEP_RESULT_OK
        /\ trace[t][3].fn = "sensor_wait_finger_not_present"
        /\ trace[t][3].st = FPC_BEP_RESULT_OK

\* A step of a thread that has called an operation: it takes the lock, a
\* platform/firmware call of it returns, or it leaves the function.
Progress ==
    \E t \in Threads :
        \/ Acquire(t)
        \/ Acquire_poisoned(t)
        \/ Exit(t)
        \/ init_enter(t)
        \/ is_user_enrolled_enter(t)
        \/ wipe_templates_enter(t)
        \/ enroll_user_enter(t)
        \/ check_once_enter(t)
        \/ \E st \in StatusCodes :
              \/ init_platform_init(t, st)
              \/ is_user_enrolled_get_count(t, st)
              \/ wipe_templates_remove_all(t, st)
              \/ enroll_user_enroll_finger(t, st)
              \/ enroll_user_template_save(t, st)
              \/ enroll_user_get_count(t, st)
              \/ enroll_user_wait_not_present(t, st)
              \/ check_once_wait_present(t, st)
              \/ check_once_wait_not_present(t, st)
              \/ \E id \in TemplateIds, m \in BOOLEAN : check_once_identify(t, st, id, m)

\* C13: lock release and deadlock freedom. The lock is held exactly while
\* some thread is between lock() and the end of its function, so it is free
\* whenever no operation is executing; a thread that waits for the lock does
\* not hold it; and while some thread has an operation under way or waits for
\* the lock, some thread can take a step (every call being able to return).
C13_LockRelease ==
    /\ (lock = NoThread) <=> (\A t \in Threads : ~InOperation(t))
    /\ \A t \in Threads : lock = t => InOperation(t)
    /\ \A t \in Threads : pc[t] = "lock" => lock # t
    /\ (\E t \in Threads : pc[t] = "lock" \/ InOperation(t)) => ENABLED Progress

\* C13 witness: every exit path is taken with another thread waiting for the
\* lock: here a firmware-error return of check_once.
C13_Witness ==
    \E t, u \in Threads :
        /\ Returning(t, "check_once")
        /\ result[t].kind = "Err" /\ result[t] # NotInitialized
        /\ pc[u] = "lock"

\* C14: session invariant. The channel, the params and the pins pointers are
\* non-null exactly when the initialized flag is set (and then point to blocks
\* that are allocated), so is_set() is the initialized flag.
C14_SessionInvariant ==
    /\ ctx.initialized <=> ctx.chain # NullPtr
    /\ ctx.initialized <=> ctx.params # NullPtr
    /\ ctx.initialized <=> ctx.pins # NullPtr
    /\ is_set(ctx) <=> ctx.initialized
    /\ ctx.initialized => {ctx.chain, ctx.params, ctx.pins} \subseteq heap

\* C14 witness: the session is initialized by an init that followed a failed
\* one, and an operation is inside a firmware call on its channel.
C14_Witness ==
    /\ ctx.initialized
    /\ ctx.chain = <<2, "chain">>
    /\ \E t \in Threads : pc[t] = "bep_template_get_count" /\ trace[t][1].ptr = ctx.chain

\* C15: a failed init leaves the session unchanged. An init whose
\* platform_init returned a non-OK status returns an error with the session
\* still uninitialized and all pointers null; an init that finds the session
\* uninitialized calls platform_init (again); and the session changes only in
\* the step in which a platform_init of init returns OK.
C15_FailedInitState ==
    \A t \in Threads :
        Returning(t, "init") /\ Len(trace[t]) = 1 =>
            /\ trace[t][1].fn = "platform_init"
            /\ trace[t][1].st # FPC_BEP_RESULT_OK =>
                  /\ result[t] = Err("platform_init", trace[t][1].st)
                  /\ ctx = SensorCtx_new
            /\ trace[t][1].st = FPC_BEP_RESULT_OK =>
                  result[t] = Ok(Unit) /\ ctx.initialized
C15_InitStep ==
    /\ \A t \in Threads :
          pc[t] = "locked" /\ op[t] = "init" /\ ~ctx.initialized /\ pc'[t] # "locked"
          => pc'[t] = "platform_init"
    /\ ctx' # ctx =>
          /\ ~ctx.initialized /\ ctx'.initialized
          /\ initOk' = initOk + 1
          /\ \E t \in Threads :
                /\ op[t] = "init" /\ pc[t] = "platform_init" /\ pc'[t] = "return"
                /\ trace'[t][1].st = FPC_BEP_RESULT_OK
    /\ initOk' # initOk => ctx' # ctx
C15_FailedInit == []C15_FailedInitState /\ [][C15_InitStep]_vars

\* C15 witness: after a failed init the session is uninitialized and a later
\* init is inside platform_init again.
C15_Witness ==
    \E t \in Threads :
        /\ pc[t] = "platform_init"
        /\ FailedInits >= 1
        /\ ctx = SensorCtx_new

\* C16: no cached template count. An is_user_enrolled call on an initialized
\* session issues exactly one bep_template_get_count and returns Ok(count > 0)
\* for the count the firmware reports then, an error iff the query is non-OK;
\* so it returns false after a remove-all that returned OK and true after a
\* save that returned OK, whichever came last.
C16_NoCachedCount ==
    \A t \in Threads :
        op[t] = "is_user_enrolled" =>
            /\ Len(trace[t]) <= 1
            /\ pc[t] = "return" /\ ctx.initialized =>
                  /\ Len(trace[t]) = 1
                  /\ trace[t][1].fn = "bep_template_get_count"
                  /\ IF trace[t][1].st = FPC_BEP_RESULT_OK
                       THEN /\ trace[t][1].out.count = Cardinality(templates)
                            /\ result[t] = Ok(BoolStr(trace[t][1].out.count > 0))
                            /\ lastStore = "remove_all" => result[t] = Ok("false")
                            /\ lastStore = "save" => result[t] = Ok("true")
                       ELSE result[t] = Err("bep_template_get_count", trace[t][1].st)

\* C16 witness: is_user_enrolled is returning Ok(false) after a remove-all that
\* returned OK.
C16_Witness ==
    \E t \in Threads :
        /\ Returning(t, "is_user_enrolled")
        /\ lastStore = "remove_all"
        /\ trace[t][1].st = FPC_BEP_RESULT_OK
        /\ result[t] = Ok("false")

\* C17: poisoned lock. Once SENSOR_CTX is poisoned, no thread is inside an
\* operation; every later lock() ends in a panic of the caller; and no step
\* reads on from, writes or resets the session, allocates, or issues a
\* platform or firmware call.
C17_PoisonState ==
    poisoned =>
        /\ lock = NoThread
        /\ \A t \in Threads : ~InOperation(t) /\ trace[t] = <<>>
C17_PoisonStep ==
    poisoned =>
        /\ poisoned'
        /\ ctx' = ctx /\ heap' = heap /\ initOk' = initOk
        /\ templates' = templates /\ lastStore' = lastStore
        /\ \A t \in Threads :
              pc[t] = "lock" /\ pc'[t] # "lock"
              => pc'[t] = "panicked" /\ result'[t] = Panicked("PoisonError")
C17_PoisonedLock == []C17_PoisonState /\ [][C17_PoisonStep]_vars

\* C17 witness: after a panic under the guard left an initialized session
\* behind, the operation of another thread has ended in the poison panic.
C17_Witness ==
    /\ poisoned
    /\ ctx.initialized
    /\ \E t \in Threads : pc[t] = "panicked" /\ result[t] = Panicked("PoisonError")

\* C19: initialized is permanent. No step changes an initialized session: the
\* flag stays set and params, pins and chain keep the pointers of the init
\* that succeeded; after a platform_init returned OK the session is initialized.
C19_InitializedStep == ctx.initialized => ctx' = ctx
C19_InitializedPermanent ==
    /\ [](initOk >= 1 => ctx.initialized /\ ctx.chain # NullPtr)
    /\ [][C19_InitializedStep]_vars

\* C19 witness: on an initialized session an operation is returning a
\* firmware error.
C19_Witness ==
    /\ ctx.initialized
    /\ \E t \in Threads :
          /\ Returning(t, "enroll_user")
          /\ result[t] = Err("bep_template_save", FPC_BEP_RESULT_IO_ERROR)

\* C18: boot ordering in main. main calls check_once only in its loop, which
\* it enters only after init, wipe_templates and enroll_user have returned Ok
\* in that order; an error of one of the three ends main with no further call;
\* in the loop no result of check_once ends the loop or makes main call
\* anything but check_once(5000).
BootDone ==
    <<[op |-> "init", res |-> Ok(Unit)], [op |-> "wipe_templates", res |-> Ok(Unit)],
      [op |-> "enroll_user", res |-> Ok(Unit)]>>
MainInLoop == main.pc \in {"loop", "match"}
C18_BootState ==
    /\ op[MainThread] = "check_once" =>
          main.pc = "loop" /\ timeout_ms[MainThread] = MAIN_CHECK_TIMEOUT
    /\ MainInLoop => main.boot = BootDone /\ ctx.initialized
    /\ main.pc = "exited" =>
          /\ pc[MainThread] = "idle"
          /\ main.boot # <<>>
          /\ main.boot[Len(main.boot)].res.kind = "Err"
    /\ Len(main.boot) <= 3
    /\ \A i \in DOMAIN main.boot :
          /\ main.boot[i].op = BootOrder[i]
          /\ i < Len(main.boot) => main.boot[i].res = Ok(Unit)
    /\ op[MainThread] \in {"init", "wipe_templates", "enroll_user"} =>
          op[MainThread] = main.pc /\ main.pc = BootOrder[Len(main.boot) + 1]
C18_LoopStep ==
    MainInLoop =>
        /\ main'.pc \in {"loop", "match"}
        /\ main'.boot = main.boot
        /\ op'[MainThread] \in {"none", "check_once"}
        /\ ctx' = ctx
C18_BootOrdering == []C18_BootState /\ [][C18_LoopStep]_vars

\* C18 witness: check_once returned an error to main, which took the error
\* arm of the match and is still in the loop, the sensor still initialised.
C18_Witness ==
    /\ main.pc = "match"
    /\ main.arm = "error"
    /\ main.boot = BootDone
    /\ pc[MainThread] = "idle"

====
